---- MODULE Spec2Model ----
(***************************************************************************)
(* A model of server/src/helpers/utils.helper.ts:                          *)
(*   - the connection cache (cacheConnection / getCachedConnection),       *)
(*   - the version helpers (extractMajorVersion, checkVersionCompatibility,*)
(*     isTooljetVersionWithNormalizedAppDefinitionSchem,                   *)
(*     isVersionGreaterThanOrEqual),                                       *)
(*   - processDataInBatches.                                               *)
(***************************************************************************)
EXTENDS Integers, Sequences, FiniteSets, TLC

VARIABLES
    CACHED_CONNECTIONS,  \* globalThis.CACHED_CONNECTIONS: object keyed by data source id
    now,                 \* the wall clock read by `new Date()`, in ms
    lastCall,            \* the most recent cache call, its arguments and its result
    lastStore,           \* history: per id, the most recent cacheConnection call
    staleSeen,           \* history: per id, a stale lookup happened since the last store
    frame,               \* per request handler: the call it is in, its locals, its result
    in1,                 \* version helpers: the first version input, as it was built
    in2,                 \* version helpers: the second version input, as it was built
    vcall,               \* version helpers: the call made on the inputs and its outcome
    items,               \* processDataInBatches: the data set getData reads, by position
    batchSize,           \* processDataInBatches: its batchSize argument
    skip,                \* processDataInBatches: local skip
    data,                \* processDataInBatches: local data
    bpc,                 \* processDataInBatches: the statement it is at
    batches,             \* history: the batches processBatch was called with, in order
    prevSkip             \* history: the skip of the latest getData call

cacheVars == <<CACHED_CONNECTIONS, now, lastCall, lastStore, staleSeen>>
versionVars == <<in1, in2, vcall>>

batchVars == <<items, batchSize, skip, data, bpc, batches, prevSkip>>

vars == <<cacheVars, frame, versionVars, batchVars>>

----------------------------------------------------------------------------
(* Bounds *)

MaxTime == 3
NumHandlers == 2

ResourceIds == {"ds1", "ds2"}
Connections == {"conn1", "conn2"}

----------------------------------------------------------------------------
(* JavaScript values *)

Undefined == "undefined"
Null == "null"

\* a JS number: NaN or an integer
Num(n) == [nan |-> FALSE, v |-> n]
NaN == [nan |-> TRUE, v |-> 0]

\* `{}`
EmptyObject == << >>

\* obj[key] of a plain object; a missing property is undefined
HasProp(obj, key) == key \in DOMAIN obj

\* the caller's dataSourceUpdatedAt: null/undefined, a valid date, or a value
\* `new Date` cannot parse
AbsentDate == [kind |-> "absent"]
InvalidDate == [kind |-> "invalid"]
DateAt(ms) == [kind |-> "date", ms |-> ms]

\* new Date(x || null).getTime()
GetTime(x) ==
    CASE x.kind = "absent" -> Num(0)
      [] x.kind = "date" -> Num(x.ms)
      [] x.kind = "invalid" -> NaN

----------------------------------------------------------------------------
(* cacheConnection, lines 30-33 *)

StoredCacheKeepFirst(cache, dataSourceId, connection, updatedAt) ==
    IF dataSourceId \in DOMAIN cache
      THEN cache
      ELSE [k \in DOMAIN cache \cup {dataSourceId} |->
              IF k = dataSourceId
                THEN [connection |-> connection, updatedAt |-> updatedAt]
                ELSE cache[k]]

\* globalThis.CACHED_CONNECTIONS[dataSourceId] = { connection, updatedAt }
StoredCache(cache, dataSourceId, connection, updatedAt) ==
    [k \in DOMAIN cache \cup {dataSourceId} |->
        IF k = dataSourceId
          THEN [connection |-> connection, updatedAt |-> updatedAt]
          ELSE cache[k]]

(* getCachedConnection, lines 35-50 *)

\* globalThis.CACHED_CONNECTIONS[dataSourceId] || {}
CachedData(cache, dataSourceId) ==
    IF dataSourceId \in DOMAIN cache THEN cache[dataSourceId] ELSE EmptyObject

\* new Date(cachedData.updatedAt || null).getTime()
CachedAt(cachedData) ==
    IF HasProp(cachedData, "updatedAt")
      THEN GetTime(DateAt(cachedData.updatedAt))
      ELSE GetTime(AbsentDate)

IsStaleSwapped(cachedAt, updatedAt) ==
    /\ ~cachedAt.nan
    /\ ~updatedAt.nan
    /\ updatedAt.v - cachedAt.v < 0

\* diffTime = (cachedAt.getTime() - updatedAt.getTime()) / 1000; diffTime < 0.
\* A comparison with NaN is false; x / 1000 < 0 exactly when x < 0.
IsStale(cachedAt, updatedAt) ==
    /\ ~cachedAt.nan
    /\ ~updatedAt.nan
    /\ cachedAt.v - updatedAt.v < 0

\* the value the returned promise resolves to
ResultOf(cachedData, dataSourceUpdatedAt) ==
    IF IsStale(CachedAt(cachedData), GetTime(dataSourceUpdatedAt))
      THEN Null
      ELSE IF HasProp(cachedData, "connection")
             THEN cachedData.connection
             ELSE Undefined

CacheAfterLookupEvict(cache, dataSourceId, dataSourceUpdatedAt) ==
    IF IsStale(CachedAt(CachedData(cache, dataSourceId)), GetTime(dataSourceUpdatedAt))
      THEN [k \in DOMAIN cache \ {dataSourceId} |-> cache[k]]
      ELSE cache

\* getCachedConnection writes nothing to globalThis.CACHED_CONNECTIONS
CacheAfterLookup(cache, dataSourceId, dataSourceUpdatedAt) == cache

----------------------------------------------------------------------------
(* Strings are sequences of one-character strings.                          *)

DigitChars == <<"0", "1", "2", "3", "4", "5", "6", "7", "8", "9">>
IsDigit(c) == \E i \in 1..10 : DigitChars[i] = c
DigitValue(c) == (CHOOSE i \in 1..10 : DigitChars[i] = c) - 1

RECURSIVE DecimalValue(_)
DecimalValue(ds) ==
    IF ds = << >> THEN 0
    ELSE 10 * DecimalValue(SubSeq(ds, 1, Len(ds) - 1)) + DigitValue(ds[Len(ds)])

RECURSIVE NumToStrPadded(_)
NumToStrPadded(n) ==
    IF n < 10 THEN <<"0", DigitChars[n + 1]>>
    ELSE NumToStrPadded(n \div 10) \o <<DigitChars[(n % 10) + 1]>>

\* `${n}` of a non-negative integer
RECURSIVE NumToStr(_)
NumToStr(n) ==
    IF n < 10 THEN <<DigitChars[n + 1]>>
    ELSE NumToStr(n \div 10) \o <<DigitChars[(n % 10) + 1]>>

AllDigits(s) == \A i \in 1..Len(s) : IsDigit(s[i])

\* String.prototype.indexOf of a one-character string, counted from 1; 0 when absent
IndexOf(s, c) ==
    IF \E i \in 1..Len(s) : s[i] = c
      THEN CHOOSE i \in 1..Len(s) : s[i] = c /\ \A j \in 1..(i - 1) : s[j] # c
      ELSE 0

\* String.prototype.split on a one-character separator
RECURSIVE Split(_, _)
Split(s, sep) ==
    LET i == IndexOf(s, sep)
    IN IF i = 0 THEN <<s>>
       ELSE <<SubSeq(s, 1, i - 1)>> \o Split(SubSeq(s, i + 1, Len(s)), sep)

\* a version argument as the caller passes it
UndefinedValue == [type |-> "undefined"]
NullValue == [type |-> "null"]
Str(s) == [type |-> "string", s |-> s]

\* the outcome of a call
Return(v) == [kind |-> "return", value |-> v]
Throw(e) == [kind |-> "throw", error |-> e]

----------------------------------------------------------------------------
(* isVersionGreaterThanOrEqual, lines 243-261 *)

\* Number(segment), for segments of digits and letters: the empty string is 0,
\* a run of decimal digits is its value, anything else is NaN
Number(seg) ==
    IF seg = << >> THEN Num(0)
    ELSE IF AllDigits(seg) THEN Num(DecimalValue(seg))
    ELSE NaN

\* version.split('-')[0].split('.').map(Number)
Parts(version) ==
    LET segs == Split(Split(version, "-")[1], ".")
    IN [i \in 1..Len(segs) |-> Number(segs[i])]

\* +parts[i] || 0, with i counted from 1: past the end parts[i] is undefined,
\* +undefined is NaN, and NaN and 0 are falsy
PartOrZero(parts, i) ==
    IF i > Len(parts) THEN 0
    ELSE IF parts[i].nan THEN 0
    ELSE parts[i].v

LoopBoundShorter(v1Parts, v2Parts) ==
    IF Len(v1Parts) <= Len(v2Parts) THEN Len(v1Parts) ELSE Len(v2Parts)

\* Math.max(v1Parts.length, v2Parts.length)
LoopBound(v1Parts, v2Parts) ==
    IF Len(v1Parts) >= Len(v2Parts) THEN Len(v1Parts) ELSE Len(v2Parts)

\* the for loop of lines 249-260, from index i (counted from 1)
RECURSIVE CompareFrom(_, _, _)
CompareFrom(v1Parts, v2Parts, i) ==
    IF i > LoopBound(v1Parts, v2Parts) THEN TRUE
    ELSE LET v1Part == PartOrZero(v1Parts, i)
             v2Part == PartOrZero(v2Parts, i)
         IN IF v1Part < v2Part THEN FALSE
            ELSE IF v1Part > v2Part THEN TRUE
            ELSE CompareFrom(v1Parts, v2Parts, i + 1)

isVersionGreaterThanOrEqual(version1, version2) ==
    IF version1.type # "string" \/ version1.s = << >>
      THEN Return(FALSE)                            \* if (!version1) return false
    ELSE IF version2.type # "string"
      THEN Throw("TypeError")                       \* version2.split is read off undefined
    ELSE Return(CompareFrom(Parts(version1.s), Parts(version2.s), 1))


----------------------------------------------------------------------------
(* The cache under whole calls: neither function awaits, so a call runs to  *)
(* completion before any other handler runs.                                *)

RefDates == {AbsentDate, InvalidDate} \cup {DateAt(ms) : ms \in 0..(MaxTime + 1)}

NoCall == [op |-> "none"]

InitCache ==
    /\ CACHED_CONNECTIONS = EmptyObject
    /\ now = 1
    /\ lastCall = NoCall
    /\ lastStore = [r \in ResourceIds |-> << >>]
    /\ staleSeen = [r \in ResourceIds |-> FALSE]

Tick ==
    /\ now < MaxTime
    /\ now' = now + 1
    /\ UNCHANGED <<CACHED_CONNECTIONS, lastCall, lastStore, staleSeen>>
    /\ UNCHANGED <<frame, versionVars, batchVars>>

cacheConnection(dataSourceId, connection) ==
    /\ CACHED_CONNECTIONS' = StoredCache(CACHED_CONNECTIONS, dataSourceId, connection, now)
    /\ lastCall' = [op |-> "cacheConnection", id |-> dataSourceId,
                    connection |-> connection, at |-> now]
    /\ lastStore' = [lastStore EXCEPT ![dataSourceId] =
                        <<[connection |-> connection, at |-> now,
                           overwrote |-> (@ # << >> /\ @[1].connection # connection)]>>]
    /\ staleSeen' = [staleSeen EXCEPT ![dataSourceId] = FALSE]
    /\ UNCHANGED <<now, frame, versionVars, batchVars>>

getCachedConnection(dataSourceId, dataSourceUpdatedAt) ==
    LET cachedData == CachedData(CACHED_CONNECTIONS, dataSourceId)
        ret == ResultOf(cachedData, dataSourceUpdatedAt)
    IN /\ CACHED_CONNECTIONS' =
              CacheAfterLookup(CACHED_CONNECTIONS, dataSourceId, dataSourceUpdatedAt)
       /\ lastCall' = [op |-> "getCachedConnection", id |-> dataSourceId,
                       t |-> dataSourceUpdatedAt, ret |-> ret]
       /\ staleSeen' = [staleSeen EXCEPT ![dataSourceId] =
                           @ \/ (lastStore[dataSourceId] # << >> /\ ret = Null)]
       /\ UNCHANGED <<now, lastStore, frame, versionVars, batchVars>>

NextCache ==
    \/ Tick
    \/ \E id \in ResourceIds, c \in Connections : cacheConnection(id, c)
    \/ \E id \in ResourceIds, t \in RefDates : getCachedConnection(id, t)

Idle == [pc |-> "idle"]
Handlers == 1..NumHandlers
NoHandlers == [p \in Handlers |-> Idle]

NoVersions == in1 = [absent |-> TRUE] /\ in2 = [absent |-> TRUE] /\ vcall = [fn |-> "none"]

NoBatches ==
    /\ items = << >> /\ batchSize = 1 /\ skip = 0 /\ data = << >>
    /\ bpc = "idle" /\ batches = << >> /\ prevSkip = << >>

Init ==
    /\ InitCache
    /\ frame = NoHandlers
    /\ NoVersions
    /\ NoBatches

Spec == Init /\ [][NextCache]_vars


----------------------------------------------------------------------------
(* The cache under statement-level interleaving of request handlers.  Each  *)
(* handler runs one call at a time; a step is one statement of the call.    *)
(* Node runs each call to completion, so its schedules are among these.     *)

ReturnValueReread(cache, fr) ==
    IF IsStale(CachedAt(fr.cachedData), GetTime(fr.t))
      THEN Null
      ELSE IF HasProp(CachedData(cache, fr.id), "connection")
             THEN CachedData(cache, fr.id).connection
             ELSE Undefined

\* lines 38-48, on the local cachedData read at line 36
ReturnValue(cache, fr) == ResultOf(fr.cachedData, fr.t)

\* a handler serves one call
CanCall(p) == frame[p].pc = "idle"

\* line 31: const updatedAt = new Date()
StoreDate(p, dataSourceId, connection) ==
    /\ CanCall(p)
    /\ frame' = [frame EXCEPT ![p] =
                    [pc |-> "store_write", id |-> dataSourceId,
                     connection |-> connection, updatedAt |-> now]]
    /\ UNCHANGED <<cacheVars, versionVars, batchVars>>

\* line 32: globalThis.CACHED_CONNECTIONS[dataSourceId] = { connection, updatedAt }
StoreWrite(p) ==
    /\ frame[p].pc = "store_write"
    /\ CACHED_CONNECTIONS' = StoredCache(CACHED_CONNECTIONS, frame[p].id,
                                         frame[p].connection, frame[p].updatedAt)
    /\ lastStore' = [lastStore EXCEPT ![frame[p].id] =
                        <<[connection |-> frame[p].connection, at |-> frame[p].updatedAt,
                           overwrote |-> (@ # << >> /\ @[1].connection # frame[p].connection)]>>]
    /\ frame' = [frame EXCEPT ![p] = [pc |-> "stored"]]
    /\ UNCHANGED <<now, lastCall, staleSeen, versionVars, batchVars>>

\* line 36: const cachedData = globalThis.CACHED_CONNECTIONS[dataSourceId] || {}
LookupRead(p, dataSourceId, dataSourceUpdatedAt) ==
    /\ CanCall(p)
    /\ frame' = [frame EXCEPT ![p] =
                    [pc |-> "lookup_return", id |-> dataSourceId,
                     t |-> dataSourceUpdatedAt,
                     cachedData |-> CachedData(CACHED_CONNECTIONS, dataSourceId),
                     latest |-> lastStore[dataSourceId]]]
    /\ UNCHANGED <<cacheVars, versionVars, batchVars>>

\* lines 38-48
LookupReturn(p) ==
    /\ frame[p].pc = "lookup_return"
    /\ frame' = [frame EXCEPT ![p] =
                    [pc |-> "returned", id |-> frame[p].id, t |-> frame[p].t,
                     latest |-> frame[p].latest,
                     raced |-> (lastStore[frame[p].id] # frame[p].latest),
                     ret |-> ReturnValue(CACHED_CONNECTIONS, frame[p])]]
    /\ UNCHANGED <<cacheVars, versionVars, batchVars>>

ConcRefDates == {AbsentDate} \cup {DateAt(ms) : ms \in 2..MaxTime}

NextConc ==
    \/ Tick
    \/ \E p \in Handlers, id \in ResourceIds, c \in Connections : StoreDate(p, id, c)
    \/ \E p \in Handlers : StoreWrite(p)
    \/ \E p \in Handlers, id \in ResourceIds, t \in ConcRefDates : LookupRead(p, id, t)
    \/ \E p \in Handlers : LookupReturn(p)

\* the handlers start on a cache that earlier calls, made at time 1, have filled
EarlierEntries == {<< >>} \cup {<<[connection |-> c, at |-> 1, overwrote |-> FALSE]>> : c \in Connections}

CacheOf(stores) ==
    [r \in {x \in ResourceIds : stores[x] # << >>} |->
        [connection |-> stores[r][1].connection, updatedAt |-> stores[r][1].at]]

InitConc ==
    /\ lastStore \in [ResourceIds -> EarlierEntries]
    /\ CACHED_CONNECTIONS = CacheOf(lastStore)
    /\ now = 1
    /\ lastCall = NoCall
    /\ staleSeen = [r \in ResourceIds |-> FALSE]
    /\ frame = NoHandlers
    /\ NoVersions
    /\ NoBatches

SpecConc == InitConc /\ [][NextConc]_vars

----------------------------------------------------------------------------
(* The semver package, as lines 221-241 use it.  A SemVer object is         *)
(* [major, minor, patch]; null is << >>, a SemVer sv is <<sv>>.             *)

\* the index of the first digit of s, 0 when it has none
FirstDigit(s) ==
    IF \E i \in 1..Len(s) : IsDigit(s[i])
      THEN CHOOSE i \in 1..Len(s) : IsDigit(s[i]) /\ \A j \in 1..(i - 1) : ~IsDigit(s[j])
      ELSE 0

\* the last index of the run of digits that starts at i
RunEnd(s, i) ==
    CHOOSE e \in i..Len(s) :
        /\ \A j \in i..e : IsDigit(s[j])
        /\ (e = Len(s) \/ ~IsDigit(s[e + 1]))

\* a numeric identifier of a strict version: 0|[1-9]\d*
IsNumericIdentifier(t) ==
    /\ t # << >>
    /\ AllDigits(t)
    /\ (Len(t) > 1 => t[1] # "0")

\* semver.parse of major.minor.patch text: null unless each part is a numeric identifier
ParseStrict(text) ==
    LET ids == Split(text, ".")
    IN IF Len(ids) = 3 /\ \A i \in 1..3 : IsNumericIdentifier(ids[i])
         THEN <<[major |-> DecimalValue(ids[1]),
                 minor |-> DecimalValue(ids[2]),
                 patch |-> DecimalValue(ids[3])]>>
         ELSE << >>

\* semver.coerce: null for a non-string; else the leftmost match of
\*   (^|[^\d])(\d{1,16})(?:\.(\d{1,16}))?(?:\.(\d{1,16}))?(?:$|[^\d])
\* parsed as `${major}.${minor || '0'}.${patch || '0'}`.  The inputs here have no
\* run of 16 digits or more, so each group takes a whole run.
Coerce(version) ==
    IF version.type # "string" THEN << >>
    ELSE
      LET s == version.s
          i == FirstDigit(s)
      IN IF i = 0 THEN << >>
         ELSE
           LET e1 == RunEnd(s, i)
               hasMinor == e1 + 2 <= Len(s) /\ s[e1 + 1] = "." /\ IsDigit(s[e1 + 2])
               e2 == IF hasMinor THEN RunEnd(s, e1 + 2) ELSE e1
               hasPatch == hasMinor /\ e2 + 2 <= Len(s) /\ s[e2 + 1] = "." /\ IsDigit(s[e2 + 2])
               e3 == IF hasPatch THEN RunEnd(s, e2 + 2) ELSE e2
               major == SubSeq(s, i, e1)
               minor == IF hasMinor THEN SubSeq(s, e1 + 2, e2) ELSE <<"0">>
               patch == IF hasPatch THEN SubSeq(s, e2 + 2, e3) ELSE <<"0">>
           IN ParseStrict(major \o <<".">> \o minor \o <<".">> \o patch)

\* SemVer.version: `${major}.${minor}.${patch}`
FormatVersion(sv) ==
    NumToStr(sv.major) \o <<".">> \o NumToStr(sv.minor) \o <<".">> \o NumToStr(sv.patch)

\* semver.valid of what coerce returned
Valid(coerced) ==
    IF coerced = << >> THEN NullValue ELSE Str(FormatVersion(coerced[1]))

\* compareIdentifiers on numbers
CompareIdentifiers(a, b) == IF a = b THEN 0 ELSE IF a < b THEN -1 ELSE 1

CompareMainMinorFirst(a, b) ==
    IF CompareIdentifiers(a.minor, b.minor) # 0 THEN CompareIdentifiers(a.minor, b.minor)
    ELSE IF CompareIdentifiers(a.major, b.major) # 0 THEN CompareIdentifiers(a.major, b.major)
    ELSE CompareIdentifiers(a.patch, b.patch)

\* SemVer.compareMain: major || minor || patch
CompareMain(a, b) ==
    IF CompareIdentifiers(a.major, b.major) # 0 THEN CompareIdentifiers(a.major, b.major)
    ELSE IF CompareIdentifiers(a.minor, b.minor) # 0 THEN CompareIdentifiers(a.minor, b.minor)
    ELSE CompareIdentifiers(a.patch, b.patch)

\* semver.gte(a, b): new SemVer(null) throws a TypeError
Gte(a, b) ==
    IF a = << >> \/ b = << >> THEN Throw("TypeError")
    ELSE Return(CompareMain(a[1], b[1]) >= 0)

\* the range '>= 2.24.0' of line 240: one comparator, >= 2.24.0
NormalizedSchemaMinimum == ParseStrict(<<"2", ".", "2", "4", ".", "0">>)

\* semver.satisfies(version, '>= 2.24.0'): false for null, never throws
Satisfies(version) ==
    IF version = << >> THEN FALSE
    ELSE CompareMain(version[1], NormalizedSchemaMinimum[1]) >= 0

(* lines 221-241 *)

extractMajorVersion(version) == Return(Valid(Coerce(version)))

checkVersionCompatibility(TOOLJET_VERSION, importingVersion) ==
    Gte(Coerce(TOOLJET_VERSION), Coerce(importingVersion))

isTooljetVersionWithNormalizedAppDefinitionSchem(version) ==
    Return(Satisfies(Coerce(version)))

----------------------------------------------------------------------------
(* Version inputs.  An input is built from a prefix, dotted segments and a  *)
(* suffix, and handed to the helpers as the string they make.               *)

MaxSegs == 3

AbsentInput == [absent |-> TRUE]

RECURSIVE Join(_)
Join(segs) ==
    IF segs = << >> THEN << >>
    ELSE IF Len(segs) = 1 THEN segs[1]
    ELSE segs[1] \o <<".">> \o Join(Tail(segs))

Render(in) == in.prefix \o Join(in.segs) \o in.suffix

ArgOf(in) == IF in.absent THEN UndefinedValue ELSE Str(Render(in))

SeqsUpTo(S, n) == UNION {[1..k -> S] : k \in 0..n}

Built(prefixes, segments, suffixes) ==
    {[absent |-> FALSE, prefix |-> p, segs |-> g, suffix |-> x] :
        p \in prefixes, g \in SeqsUpTo(segments, MaxSegs), x \in suffixes}

Suffixes == {<< >>, <<"-", "b", ".", "9">>}

PairSegments == {<<"0">>, <<"2">>, <<"1", "0">>, <<"a">>}
PairInputs == {AbsentInput} \cup Built({<< >>}, PairSegments, Suffixes)

UnarySegments ==
    {<< >>, <<"0">>, <<"1">>, <<"2">>, <<"1", "0">>, <<"2", "3">>, <<"2", "4">>,
     <<"0", "1">>, <<"a">>}
UnaryInputs == {AbsentInput} \cup Built({<< >>, <<"v">>}, UnarySegments, Suffixes)

NoCallYet == vcall = [fn |-> "none"]

IdleCache ==
    /\ CACHED_CONNECTIONS = EmptyObject
    /\ now = 1
    /\ lastCall = NoCall
    /\ lastStore = [r \in ResourceIds |-> << >>]
    /\ staleSeen = [r \in ResourceIds |-> FALSE]
    /\ frame = NoHandlers

InitPair ==
    /\ IdleCache
    /\ NoBatches
    /\ in1 \in PairInputs
    /\ in2 \in PairInputs
    /\ vcall = [fn |-> "none"]

CallIsVersionGreaterThanOrEqual ==
    /\ NoCallYet
    /\ vcall' = [fn |-> "isVersionGreaterThanOrEqual",
                 out |-> isVersionGreaterThanOrEqual(ArgOf(in1), ArgOf(in2))]
    /\ UNCHANGED <<in1, in2, cacheVars, frame, batchVars>>

\* in1 is globalThis.TOOLJET_VERSION, in2 the importing version
CallCheckVersionCompatibility ==
    /\ NoCallYet
    /\ vcall' = [fn |-> "checkVersionCompatibility",
                 out |-> checkVersionCompatibility(ArgOf(in1), ArgOf(in2))]
    /\ UNCHANGED <<in1, in2, cacheVars, frame, batchVars>>

NextPair == CallIsVersionGreaterThanOrEqual \/ CallCheckVersionCompatibility

SpecPair == InitPair /\ [][NextPair]_vars

InitUnary ==
    /\ IdleCache
    /\ NoBatches
    /\ in1 \in UnaryInputs
    /\ in2 = AbsentInput
    /\ vcall = [fn |-> "none"]

CallExtractMajorVersion ==
    /\ NoCallYet
    /\ vcall' = [fn |-> "extractMajorVersion", out |-> extractMajorVersion(ArgOf(in1))]
    /\ UNCHANGED <<in1, in2, cacheVars, frame, batchVars>>

\* extractMajorVersion on what extractMajorVersion returned
CallExtractMajorVersionAgain ==
    /\ vcall.fn = "extractMajorVersion"
    /\ vcall' = [fn |-> "extractMajorVersion twice", first |-> vcall.out,
                 out |-> extractMajorVersion(vcall.out.value)]
    /\ UNCHANGED <<in1, in2, cacheVars, frame, batchVars>>

CallIsTooljetVersionWithNormalizedAppDefinitionSchem ==
    /\ NoCallYet
    /\ vcall' = [fn |-> "isTooljetVersionWithNormalizedAppDefinitionSchem",
                 out |-> isTooljetVersionWithNormalizedAppDefinitionSchem(ArgOf(in1))]
    /\ UNCHANGED <<in1, in2, cacheVars, frame, batchVars>>

NextUnary ==
    \/ CallExtractMajorVersion
    \/ CallExtractMajorVersionAgain
    \/ CallIsTooljetVersionWithNormalizedAppDefinitionSchem

SpecUnary == InitUnary /\ [][NextUnary]_vars

----------------------------------------------------------------------------
(* processDataInBatches, lines 163-180 *)

MaxItems == 6
MaxBatch == 4

\* getData(entityManager, skip, take) over an unchanging data set: the items
\* at positions [skip, skip + take)
GetData(all, from, take) ==
    SubSeq(all, from + 1, IF from + take <= Len(all) THEN from + take ELSE Len(all))

NextSkipByOne(s, size) == s + 1

\* skip += batchSize
NextSkip(s, size) == s + size

\* while (data.length === batchSize)
ContinueLoop(d, size) == Len(d) = size

InitBatch ==
    /\ IdleCache
    /\ NoVersions
    /\ \E n \in 0..MaxItems : items = [i \in 1..n |-> i]
    /\ batchSize \in 0..MaxBatch
    /\ skip = 0
    /\ data = << >>
    /\ bpc = "get"
    /\ batches = << >>
    /\ prevSkip = << >>

\* line 173: data = await getData(entityManager, skip, batchSize)
AwaitGetData ==
    /\ bpc = "get"
    /\ data' = GetData(items, skip, batchSize)
    /\ prevSkip' = <<skip>>
    /\ bpc' = "process"
    /\ UNCHANGED <<items, batchSize, skip, batches, cacheVars, frame, versionVars>>

\* lines 174-178: skip += batchSize; if (data.length > 0) await processBatch(...)
AwaitProcessBatch ==
    /\ bpc = "process"
    /\ skip' = NextSkip(skip, batchSize)
    /\ batches' = IF Len(data) > 0 THEN Append(batches, data) ELSE batches
    /\ bpc' = "test"
    /\ UNCHANGED <<items, batchSize, data, prevSkip, cacheVars, frame, versionVars>>

\* line 179
LoopTest ==
    /\ bpc = "test"
    /\ bpc' = IF ContinueLoop(data, batchSize) THEN "get" ELSE "done"
    /\ UNCHANGED <<items, batchSize, skip, data, batches, prevSkip>>
    /\ UNCHANGED <<cacheVars, frame, versionVars>>

NextBatch == AwaitGetData \/ AwaitProcessBatch \/ LoopTest

\* a resolved promise's continuation is always run
SpecBatch == InitBatch /\ [][NextBatch]_vars /\ WF_vars(NextBatch)

----------------------------------------------------------------------------
(* Claims about the cache *)

LookupDone == lastCall.op = "getCachedConnection"
Stored(id) == lastStore[id] # << >>
LatestStore(id) == lastStore[id][1]

\* the reference timestamp is absent, or not later than the time of the latest store
NotLaterThanStore(t, id) ==
    \/ t.kind = "absent"
    \/ t.kind = "date" /\ t.ms <= LatestStore(id).at

\* C1: a lookup whose reference timestamp is absent or not later than the
\* cachedAt of the most recent store for the id returns the handle of that
\* most recent store (equal timestamps count as fresh), never an earlier
\* handle and never absent.
C1_FreshLookupReturnsLatestStore ==
    (LookupDone /\ Stored(lastCall.id) /\ NotLaterThanStore(lastCall.t, lastCall.id))
        => lastCall.ret = LatestStore(lastCall.id).connection

C1_Witness ==
    /\ LookupDone
    /\ Stored(lastCall.id)
    /\ LatestStore(lastCall.id).overwrote
    /\ lastCall.t.kind = "date"
    /\ lastCall.t.ms = LatestStore(lastCall.id).at
    /\ lastCall.ret = LatestStore(lastCall.id).connection

\* C2: a lookup returns absent (null or undefined) when nothing was ever
\* stored for the id, whatever the reference timestamp, and when the
\* reference timestamp is strictly later than the cachedAt of the entry.
C2_AbsentWhenMissingOrStale ==
    (LookupDone /\ (\/ ~Stored(lastCall.id)
                    \/ /\ lastCall.t.kind = "date"
                       /\ lastCall.t.ms > LatestStore(lastCall.id).at))
        => lastCall.ret \in {Null, Undefined}

C2_Witness ==
    /\ LookupDone
    /\ Stored(lastCall.id)
    /\ lastCall.t.kind = "date"
    /\ lastCall.t.ms > LatestStore(lastCall.id).at
    /\ lastCall.ret = Null

C3_FreshAfterStale ==
    (/\ LookupDone
     /\ Stored(lastCall.id)
     /\ staleSeen[lastCall.id]
     /\ NotLaterThanStore(lastCall.t, lastCall.id))
        => lastCall.ret = LatestStore(lastCall.id).connection

C3_LookupFrame ==
    (lastCall'.op = "getCachedConnection" /\ lastCall' # lastCall)
        => CACHED_CONNECTIONS' = CACHED_CONNECTIONS

\* C3: a lookup leaves the whole cache unchanged, also when it reports the
\* entry stale: after a stale lookup returned absent, a later lookup with a
\* reference timestamp not later than cachedAt, and no store in between,
\* still returns the stored handle.
C3_LookupLeavesCache == []C3_FreshAfterStale /\ [][C3_LookupFrame]_vars

C3_Witness ==
    /\ LookupDone
    /\ Stored(lastCall.id)
    /\ staleSeen[lastCall.id]
    /\ lastCall.t.kind = "date"
    /\ lastCall.t.ms <= LatestStore(lastCall.id).at
    /\ lastCall.ret = LatestStore(lastCall.id).connection

\* the entry of the store `latest`, as the object cacheConnection writes
EntryOf(latest) == [connection |-> latest[1].connection, updatedAt |-> latest[1].at]

\* what a lookup with reference timestamp t returns from the entry of one store
FromOneStore(latest, t, ret) ==
    IF latest = << >>
      THEN ret \in {Null, Undefined}
      ELSE IF t.kind = "date" /\ t.ms > latest[1].at
             THEN ret = Null
             ELSE ret = latest[1].connection

C4_NoTornRead ==
    \A p \in Handlers :
        /\ frame[p].pc = "lookup_return" =>
              IF frame[p].latest = << >>
                THEN DOMAIN frame[p].cachedData = {}
                ELSE /\ DOMAIN frame[p].cachedData # {}
                     /\ frame[p].cachedData = EntryOf(frame[p].latest)
        /\ frame[p].pc = "returned" =>
              FromOneStore(frame[p].latest, frame[p].t, frame[p].ret)

EntryOpt(cache, r) == IF r \in DOMAIN cache THEN <<cache[r]>> ELSE << >>

C4_OtherIdsUntouched ==
    \A r \in ResourceIds :
        EntryOpt(CACHED_CONNECTIONS', r) # EntryOpt(CACHED_CONNECTIONS, r)
            => \E p \in Handlers :
                  /\ frame[p].pc = "store_write"
                  /\ frame[p].id = r
                  /\ frame'[p].pc = "stored"

\* C4: under any interleaving of handlers, a store for one id never changes
\* the entry of another id, and a lookup racing a store for its id observes
\* the complete entry of one store (handle and cachedAt together), the one
\* before or the one after, never a mix.
C4_StoresAndLookupsDoNotTear == []C4_NoTornRead /\ [][C4_OtherIdsUntouched]_vars

C4_Witness ==
    \E p \in Handlers :
        /\ frame[p].pc = "returned"
        /\ frame[p].raced
        /\ frame[p].latest # << >>
        /\ frame[p].ret = frame[p].latest[1].connection
        /\ lastStore[frame[p].id][1].connection # frame[p].ret

----------------------------------------------------------------------------
(* Claims about the version helpers.  What a version means is read off the  *)
(* way the input was built, not off the string the helpers parse.           *)

\* per segment: whether it is a decimal numeral, its value, and whether it is
\* written without a leading zero
SegmentInfo ==
    (<< >> :> [numeric |-> FALSE, value |-> 0, canonical |-> FALSE]) @@
    (<<"a">> :> [numeric |-> FALSE, value |-> 0, canonical |-> FALSE]) @@
    (<<"0">> :> [numeric |-> TRUE, value |-> 0, canonical |-> TRUE]) @@
    (<<"1">> :> [numeric |-> TRUE, value |-> 1, canonical |-> TRUE]) @@
    (<<"2">> :> [numeric |-> TRUE, value |-> 2, canonical |-> TRUE]) @@
    (<<"1", "0">> :> [numeric |-> TRUE, value |-> 10, canonical |-> TRUE]) @@
    (<<"2", "3">> :> [numeric |-> TRUE, value |-> 23, canonical |-> TRUE]) @@
    (<<"2", "4">> :> [numeric |-> TRUE, value |-> 24, canonical |-> TRUE]) @@
    (<<"0", "1">> :> [numeric |-> TRUE, value |-> 1, canonical |-> FALSE])

\* the version a suffix holds when nothing before it holds one
SuffixTriple ==
    (<< >> :> << >>) @@
    (<<"-", "b", ".", "9">> :> <<<<9, 0, 0>>>>)

PadAt(t, i) == IF i <= Len(t) THEN t[i] ELSE 0

\* a >= b, most significant first, the shorter tuple padded with zeros
LexGE(a, b) ==
    LET n == IF Len(a) >= Len(b) THEN Len(a) ELSE Len(b)
    IN \/ \A i \in 1..n : PadAt(a, i) = PadAt(b, i)
       \/ \E i \in 1..n : /\ PadAt(a, i) > PadAt(b, i)
                          /\ \A j \in 1..(i - 1) : PadAt(a, j) = PadAt(b, j)

\* the integer tuple of a dotted version: one integer per segment before the
\* suffix, 0 for a segment that is not a numeral
DottedTuple(in) ==
    [i \in 1..Len(in.segs) |->
        IF i = 1 /\ in.prefix # << >> THEN 0 ELSE SegmentInfo[in.segs[i]].value]

IsEmptyInput(in) ==
    in.absent \/ (in.prefix = << >> /\ in.suffix = << >> /\ \A i \in 1..Len(in.segs) : in.segs[i] = << >> /\ Len(in.segs) <= 1)

\* C5: isVersionGreaterThanOrEqual returns false when version1 is empty or
\* absent, and otherwise true exactly when the integer tuple of version1 is
\* lexicographically greater than or equal to that of version2, the shorter
\* tuple padded with zeros; equal tuples give true.
C5_DottedComparisonIsLexicographic ==
    (vcall.fn = "isVersionGreaterThanOrEqual" /\ ~in2.absent)
        => vcall.out = Return(/\ ~IsEmptyInput(in1)
                              /\ LexGE(DottedTuple(in1), DottedTuple(in2)))

C5_Witness ==
    /\ vcall.fn = "isVersionGreaterThanOrEqual"
    /\ ~in1.absent /\ ~in2.absent
    /\ Len(in1.segs) = 1 /\ Len(in2.segs) = 3
    /\ in1.segs[1] = <<"1", "0">> /\ in2.segs[1] = <<"1", "0">>
    /\ in2.segs[2] = <<"a">> /\ in2.segs[3] = <<"0">>
    /\ in1.suffix # << >>
    /\ vcall.out = Return(TRUE)

\* C6: the version helpers never raise, whatever the arguments.
C6_VersionHelpersNeverRaise ==
    vcall.fn # "none" => vcall.out.kind = "return"

\* the (major, minor, patch) of the version an input coerces to, or none: the
\* first numeral segment and up to two numeral segments right after it; a
\* numeral with a leading zero is no version
CoercedTriple(in) ==
    IF in.absent THEN << >>
    ELSE
      LET n == Len(in.segs)
          numeric(i) == i <= n /\ SegmentInfo[in.segs[i]].numeric
          value(i) == SegmentInfo[in.segs[i]].value
      IN IF ~\E i \in 1..n : numeric(i) THEN SuffixTriple[in.suffix]
         ELSE
           LET k == CHOOSE i \in 1..n : numeric(i) /\ \A j \in 1..(i - 1) : ~numeric(j)
               withMinor == numeric(k + 1)
               withPatch == withMinor /\ numeric(k + 2)
               used == {k} \cup (IF withMinor THEN {k + 1} ELSE {})
                           \cup (IF withPatch THEN {k + 2} ELSE {})
           IN IF \E i \in used : ~SegmentInfo[in.segs[i]].canonical THEN << >>
              ELSE <<<<value(k),
                       IF withMinor THEN value(k + 1) ELSE 0,
                       IF withPatch THEN value(k + 2) ELSE 0>>>>

\* C7: checkVersionCompatibility returns true exactly when the coerced
\* running version is greater than or equal to the coerced importing version
\* by major, then minor, then patch, suffixes ignored.
C7_CompatibleIffRunningAtLeastImporting ==
    vcall.fn = "checkVersionCompatibility" =>
        LET running == CoercedTriple(in1)
            importing == CoercedTriple(in2)
        IN /\ (running # << >> /\ importing # << >>)
                 => vcall.out = Return(LexGE(running[1], importing[1]))
           /\ vcall.out = Return(TRUE) => (running # << >> /\ importing # << >>)

C7_Witness ==
    /\ vcall.fn = "checkVersionCompatibility"
    /\ vcall.out = Return(TRUE)
    /\ in2.suffix # << >>
    /\ CoercedTriple(in1)[1][1] = CoercedTriple(in2)[1][1]
    /\ CoercedTriple(in1)[1][2] = CoercedTriple(in2)[1][2]
    /\ CoercedTriple(in1)[1][3] > CoercedTriple(in2)[1][3]

\* the minimum version the documentation of lines 229-238 states
DocumentedMinimum == <<2, 24, 1>>

\* C8: isTooljetVersionWithNormalizedAppDefinitionSchem returns true exactly
\* when the coerced version is greater than or equal to 2.24.1.
C8_TrueIffAtLeastDocumentedMinimum ==
    vcall.fn = "isTooljetVersionWithNormalizedAppDefinitionSchem" =>
        vcall.out = Return(/\ CoercedTriple(in1) # << >>
                           /\ LexGE(CoercedTriple(in1)[1], DocumentedMinimum))

\* C9: extractMajorVersion applied to its own result returns that result,
\* a normalized major.minor.patch string or null.
C9_ExtractMajorVersionIdempotent ==
    vcall.fn = "extractMajorVersion twice" => vcall.out = vcall.first

C9_Witness ==
    /\ vcall.fn = "extractMajorVersion twice"
    /\ vcall.first.value.type = "string"
    /\ vcall.first.value.s # Render(in1)
    /\ in1.prefix # << >>
    /\ vcall.out = vcall.first

----------------------------------------------------------------------------
(* Claims about processDataInBatches *)

RECURSIVE Flatten(_)
Flatten(bs) == IF bs = << >> THEN << >> ELSE bs[1] \o Flatten(Tail(bs))

\* the batches so far are non-empty and together are the first items, in
\* position order, each once
ProcessedInOrder ==
    /\ \A i \in 1..Len(batches) : batches[i] # << >>
    /\ Len(Flatten(batches)) <= Len(items)
    /\ Flatten(batches) = SubSeq(items, 1, Len(Flatten(batches)))

AllProcessed == bpc = "done" /\ Flatten(batches) = items

\* each getData call is made with the skip of the call before it plus batchSize
SkipAdvances ==
    (prevSkip # << >> /\ prevSkip' # prevSkip) => prevSkip'[1] = prevSkip[1] + batchSize

\* C10 as stated, for every batchSize: the call terminates with every item
\* processed once, in position order.
C10_TerminatesForEveryBatchSize == <>AllProcessed

\* C10, amended to batchSize >= 1: the call terminates, processBatch has then
\* been invoked on consecutive non-empty batches that cover every item once
\* in position order, and skip advances by batchSize between getData calls.
C10_CoversEveryItemOnce ==
    /\ [](batchSize >= 1 => ProcessedInOrder)
    /\ [][batchSize >= 1 => SkipAdvances]_vars
    /\ (bpc = "get" /\ batchSize >= 1) ~> AllProcessed

C10_Witness ==
    /\ AllProcessed
    /\ batchSize >= 2
    /\ Len(batches) >= 2
    /\ Len(items) % batchSize # 0

====
